---------------------------- MODULE Spec2Model ----------------------------
(***************************************************************************)
(* Model of the my-fitness-pal REST backend: routes/auth.js (register,     *)
(* login, profile, search, add-food, log-food, daily-summary) and the      *)
(* authenticateToken middleware that guards the protected routes.          *)
(*                                                                         *)
(* Every `await` of a handler is an interleaving point: a handler is cut   *)
(* into one action per awaited query.  The synchronous prefix of a request *)
(* (the guard, the field validation, the code before the first await) is   *)
(* one action, Arrive.                                                     *)
(***************************************************************************)
EXTENDS Integers, Sequences, FiniteSets, TLC

\* now: Date.now(), ms.          ticks: how often the clock has advanced.
\* users, foods, logs: the tables.
\* tokens: the tokens that login has handed to clients, each with the time
\*   at which it was signed.
\* reqs: the requests in flight, by slot.
\* last: the request that ended most recently, with its response.
VARIABLES now, ticks, users, foods, logs, tokens, reqs, last

vars == <<now, ticks, users, foods, logs, tokens, reqs, last>>

---------------------------------------------------------------------------
(* Bounds of the model.                                                    *)

MaxReqs == 2
MaxSerial == 1
MaxTicks == 2
MaxDayTicks == 1
MaxFoods == 1
MaxLogs == 2
MaxTokens == 1

ReqIds == 1..MaxReqs

\* The slots used where requests are served one after the other.
SerialIds == 1..MaxSerial

---------------------------------------------------------------------------
(* Time.  The clock is Date.now(), in milliseconds.                        *)

MsPerSecond == 1000
MsPerDay == 24 * 60 * 60 * MsPerSecond
ExpiresInSeconds == 3600


\* logged_at::date and CURRENT_DATE: the calendar day of a timestamp.
DateOf(ms) == ms \div MsPerDay

---------------------------------------------------------------------------
(* Strings that the code inspects character by character are sequences of  *)
(* character codes.                                                        *)

\* String.prototype.toLowerCase on ASCII text.
ToLowerCase(s) == [i \in DOMAIN s |-> IF s[i] \in 65..90 THEN s[i] + 32 ELSE s[i]]

Breakfast == <<98, 114, 101, 97, 107, 102, 97, 115, 116>>
Lunch == <<108, 117, 110, 99, 104>>
Dinner == <<100, 105, 110, 110, 101, 114>>
Snack == <<115, 110, 97, 99, 107>>

validMealTypes == {Breakfast, Lunch, Dinner, Snack}

\* A JSON value of the request body: a string, a number, or absent.
JsString(s) == [t |-> "string", s |-> s, n |-> 0]
JsNumber(n) == [t |-> "number", s |-> <<>>, n |-> n]
JsUndefined == [t |-> "undefined", s |-> <<>>, n |-> 0]

\* JavaScript truthiness: undefined, '' and 0 are falsy.
Truthy(v) ==
    CASE v.t = "string" -> v.s # <<>>
      [] v.t = "number" -> v.n # 0
      [] OTHER -> FALSE

---------------------------------------------------------------------------
(* The authorization header.  Its text is a sequence of chunks: a space, a *)
(* word without spaces, or a JSON web token (which holds no space).        *)

Sp == [k |-> "sp", w |-> "", userId |-> 0, iat |-> 0, exp |-> 0, key |-> ""]
Word(w) == [k |-> "word", w |-> w, userId |-> 0, iat |-> 0, exp |-> 0, key |-> ""]
Jwt(u, iat, exp, key) ==
    [k |-> "jwt", w |-> "", userId |-> u, iat |-> iat, exp |-> exp, key |-> key]

NoHeader == [present |-> FALSE, text |-> <<>>]
Header(text) == [present |-> TRUE, text |-> text]

\* String.prototype.split(' '): the parts between the spaces.
RECURSIVE SplitAcc(_, _, _)
SplitAcc(text, cur, acc) ==
    IF text = <<>> THEN Append(acc, cur)
    ELSE IF Head(text) = Sp
         THEN SplitAcc(Tail(text), <<>>, Append(acc, cur))
         ELSE SplitAcc(Tail(text), Append(cur, Head(text)), acc)

Split(text) == SplitAcc(text, <<>>, <<>>)

\* A variant that takes the last part of the header instead of the second.
ExtractTokenLast(hdr) ==
    IF ~hdr.present \/ hdr.text = <<>> THEN <<>>
    ELSE LET parts == Split(hdr.text) IN parts[Len(parts)]

\* authHeader && authHeader.split(' ')[1]; every falsy outcome (undefined,
\* '') is the empty text.
ExtractToken(hdr) ==
    IF ~hdr.present \/ hdr.text = <<>> THEN <<>>
    ELSE LET parts == Split(hdr.text)
         IN IF Len(parts) >= 2 THEN parts[2] ELSE <<>>

---------------------------------------------------------------------------
(* jsonwebtoken.                                                           *)

JWT_SECRET == "server-secret"

\* jwt.sign(payload, secret, {expiresIn: '1h'}): iat is the whole second of
\* the clock, exp is iat + 3600.
JwtSign(userId, secret, ms) ==
    Jwt(userId, ms \div MsPerSecond, ms \div MsPerSecond + ExpiresInSeconds, secret)

\* A variant that still accepts the token during the second of its expiry.
JwtVerifyOkLate(token, secret, ms) ==
    /\ Len(token) = 1
    /\ token[1].k = "jwt"
    /\ token[1].key = secret
    /\ ~(ms \div MsPerSecond > token[1].exp)

\* jwt.verify(token, secret) succeeds: the token is one well-formed JWT,
\* signed with the secret, and the whole second of the clock is before exp.
JwtVerifyOk(token, secret, ms) ==
    /\ Len(token) = 1
    /\ token[1].k = "jwt"
    /\ token[1].key = secret
    /\ ~(ms \div MsPerSecond >= token[1].exp)

NoClaims == [userId |-> 0, iat |-> 0, exp |-> 0]

\* The decoded payload.
JwtDecode(token) ==
    [userId |-> token[1].userId, iat |-> token[1].iat, exp |-> token[1].exp]

---------------------------------------------------------------------------
(* bcryptjs.  A hash embeds its salt; the digest of (salt, password) is    *)
(* collision free.                                                         *)

Salts == {"s1"}

BcryptHash(password, salt) == [salt |-> salt, digest |-> <<salt, password>>]

BcryptCompare(password, hash) == hash.digest = <<hash.salt, password>>

---------------------------------------------------------------------------
(* The tables.  users, foods and logs are sequences of rows in insertion   *)
(* order; a row's id is its position (a serial key, rows are never         *)
(* deleted).                                                               *)

NoUser == [id |-> 0, email |-> "", password |-> BcryptHash("", "")]

\* SELECT * FROM users WHERE email = $1
RECURSIVE SelectUsersByEmail(_, _)
SelectUsersByEmail(tbl, email) ==
    IF tbl = <<>> THEN <<>>
    ELSE LET rest == SelectUsersByEmail(Tail(tbl), email)
         IN IF Head(tbl).email = email THEN <<Head(tbl)>> \o rest ELSE rest

\* The users table declares email unique: an INSERT of an email already in
\* the table is refused by the database.
UsersEmailUnique == TRUE

\* The daily_food_logs table fills logged_at, which the INSERT leaves out,
\* with the time of the insert.
LoggedAtDefault(ms) == ms

\* SELECT food_name FROM foods WHERE id = $1
FoodExists(tbl, food_id) == \E i \in DOMAIN tbl : tbl[i].id = food_id

\* A variant whose WHERE clause leaves out the user.
TodayLogsAnyUser(lg, fd, userId, ms) ==
    {i \in DOMAIN lg :
        /\ \E j \in DOMAIN fd : fd[j].id = lg[i].food_id
        /\ DateOf(lg[i].logged_at) = DateOf(ms)}

\* The rows of daily_food_logs JOIN foods for one user and one date, as the
\* set of their positions in the log table.
TodayLogs(lg, fd, userId, ms) ==
    {i \in DOMAIN lg :
        /\ \E j \in DOMAIN fd : fd[j].id = lg[i].food_id
        /\ lg[i].user_id = userId
        /\ DateOf(lg[i].logged_at) = DateOf(ms)}

CaloriesOf(fd, food_id) ==
    LET j == CHOOSE j \in DOMAIN fd : fd[j].id = food_id IN fd[j].calories

\* SUM(f.calories * dfl.quantity) over a set of joined rows.
RECURSIVE SumCalories(_, _, _)
SumCalories(lg, fd, rows) ==
    IF rows = {} THEN 0
    ELSE LET i == CHOOSE i \in rows : TRUE
         IN CaloriesOf(fd, lg[i].food_id) * lg[i].quantity
              + SumCalories(lg, fd, rows \ {i})

\* COALESCE(SUM(f.calories * dfl.quantity), 0) ... WHERE user_id = $1 AND
\* logged_at::date = CURRENT_DATE
TotalQuery(lg, fd, userId, ms) == SumCalories(lg, fd, TodayLogs(lg, fd, userId, ms))

\* A variant of the per-meal query whose WHERE clause leaves out the date.
MealQueryAnyDate(lg, fd, userId, ms) ==
    LET rows == {i \in DOMAIN lg : lg[i].user_id = userId}
        types == {lg[i].meal_type : i \in rows}
    IN [m \in types |-> SumCalories(lg, fd, {i \in rows : lg[i].meal_type = m})]

\* The same sum ... GROUP BY dfl.meal_type: one row per meal type that has a
\* log, as a function from the meal type to its total.
MealQuery(lg, fd, userId, ms) ==
    LET rows == TodayLogs(lg, fd, userId, ms)
        types == {lg[i].meal_type : i \in rows}
    IN [m \in types |-> SumCalories(lg, fd, {i \in rows : lg[i].meal_type = m})]

NoMeals == [m \in {} |-> 0]

---------------------------------------------------------------------------
(* Requests.  A slot holds one request from its arrival to its end.        *)

Routes == {"register", "login", "profile", "search", "add-food", "log-food",
           "daily-summary"}

GuardedRoutes == {"profile", "add-food", "log-food", "daily-summary"}

NoPassword == "<undefined>"

NoArgs ==
    [email |-> "", password |-> "", food_name |-> FALSE, serving_size |-> FALSE,
     calories |-> 0, food_id |-> 0, meal_type |-> JsUndefined, quantity |-> 0,
     query |-> FALSE]

NoToken == Jwt(0, 0, 0, "")

\* The response body sent by res.json.
NoBody == [error |-> "", token |-> NoToken, id |-> 0, total |-> 0, meals |-> NoMeals]
ErrorBody(msg) == [NoBody EXCEPT !.error = msg]

IdleReq ==
    [route |-> "idle", pc |-> "idle", hdr |-> NoHeader, args |-> NoArgs,
     user |-> NoClaims, verifyCalled |-> FALSE, nextCalled |-> FALSE,
     status |-> 0, nres |-> 0, body |-> NoBody, thrown |-> "none",
     row |-> NoUser, mealType |-> <<>>, total |-> 0, seen1 |-> {}, seen2 |-> {}]

\* res.status(code).json(body): the response is sent and the request ends.
Respond(q, code, body) ==
    [q EXCEPT !.pc = "done", !.status = code, !.nres = q.nres + 1, !.body = body]

\* An error leaves a middleware uncaught.  No response is sent by this code:
\* the router passes the error to its final handler, which answers with the
\* status already set if that is an error status, and with 500 if not, and
\* with a page that names the error.
Throw(q, err) ==
    [q EXCEPT !.pc = "threw", !.thrown = err, !.nres = q.nres + 1,
              !.status = IF q.status >= 400 THEN q.status ELSE 500,
              !.body = ErrorBody(err)]

\* An error leaves an async handler uncaught: the promise it returned is
\* rejected.  A router that awaits its handlers answers as for Throw
\* (rescued); one that does not leaves the request without a response.
Reject(q, err, rescued) ==
    IF rescued THEN Throw(q, err) ELSE [q EXCEPT !.pc = "threw", !.thrown = err]

Finished(q) == q.pc \in {"idle", "done", "threw"}

---------------------------------------------------------------------------
(* middleware/authMiddleware.js                                            *)

\* A variant that decodes the token without verifying it.
authenticateTokenDecodeOnly(q, ms) ==
    LET token == ExtractToken(q.hdr)
    IN IF token = <<>>
       THEN Throw([q EXCEPT !.status = 401], "TypeError")
       ELSE IF Len(token) = 1 /\ token[1].k = "jwt"
            THEN [q EXCEPT !.verifyCalled = TRUE, !.user = JwtDecode(token),
                           !.nextCalled = TRUE]
            ELSE Respond([q EXCEPT !.verifyCalled = TRUE], 400,
                         ErrorBody("Invalid token"))

\* authenticateToken: the request after the guard.  nextCalled tells whether
\* the route handler runs.
authenticateToken(q, ms) ==
    LET token == ExtractToken(q.hdr)
    IN IF token = <<>>
       THEN \* res.status(401) sets the status; .jso is not a function of the
            \* response, so the call throws a TypeError before the guard has
            \* sent anything.
            Throw([q EXCEPT !.status = 401], "TypeError")
       ELSE IF JwtVerifyOk(token, JWT_SECRET, ms)
            THEN [q EXCEPT !.verifyCalled = TRUE, !.user = JwtDecode(token),
                           !.nextCalled = TRUE]
            ELSE Respond([q EXCEPT !.verifyCalled = TRUE], 400,
                         ErrorBody("Invalid token"))

---------------------------------------------------------------------------
(* routes/auth.js: the synchronous prefix of each handler, up to its first *)
(* await.                                                                  *)

\* validMealTypes.includes(meal_type.toLowerCase()) ? ... : 'snack'
CoerceMealType(s) ==
    IF ToLowerCase(s) \in validMealTypes THEN ToLowerCase(s) ELSE Snack

HandlerEntry(q, rescued) ==
    CASE q.route = "register" -> [q EXCEPT !.pc = "select"]
      [] q.route = "login" -> [q EXCEPT !.pc = "select"]
      [] q.route = "profile" -> [q EXCEPT !.pc = "select"]
      [] q.route = "search" ->
            IF ~q.args.query
            THEN Respond(q, 400, ErrorBody("Query must be provided"))
            ELSE [q EXCEPT !.pc = "upstream"]
      [] q.route = "add-food" ->
            IF ~q.args.food_name \/ ~q.args.serving_size \/ q.args.calories = 0
            THEN Respond(q, 400,
                     ErrorBody("Food name, serving size, and calories are required"))
            ELSE [q EXCEPT !.pc = "insert"]
      [] q.route = "log-food" ->
            IF q.args.food_id = 0 \/ ~Truthy(q.args.meal_type) \/ q.args.quantity = 0
            THEN Respond(q, 400,
                     ErrorBody("Food ID, meal type, and quantity are required"))
            ELSE IF q.args.meal_type.t # "string"
                 THEN \* meal_type.toLowerCase is not a function: a TypeError
                      \* thrown before the try block is entered.
                      Reject(q, "TypeError", rescued)
                 ELSE [q EXCEPT !.pc = "select",
                                !.mealType = CoerceMealType(q.args.meal_type.s)]
      [] q.route = "daily-summary" -> [q EXCEPT !.pc = "total"]

\* The request as it stands when control returns to the event loop.
Dispatch(q, ms, rescued) ==
    IF q.route \in GuardedRoutes
    THEN LET g == authenticateToken(q, ms)
         IN IF g.nextCalled THEN HandlerEntry(g, rescued) ELSE g
    ELSE HandlerEntry(q, rescued)

---------------------------------------------------------------------------
(* What clients send.                                                      *)

Emails == {"a@b.com", "c@d.com"}
Passwords == {"pw1", "pw2"}

\* The bodies of add-food requests: a food of 100 calories, and one body
\* for each required field left out.
FoodArgs(nm, sv, c) == [NoArgs EXCEPT !.food_name = nm, !.serving_size = sv, !.calories = c]

AddFoodInputs ==
    {FoodArgs(TRUE, TRUE, 100), FoodArgs(FALSE, TRUE, 100), FoodArgs(TRUE, FALSE, 100),
     FoodArgs(TRUE, TRUE, 0)}

LogArgs(f, m, n) == [NoArgs EXCEPT !.food_id = f, !.meal_type = m, !.quantity = n]

MixedLunch == JsString(<<76, 117, 110, 99, 104>>)
UpperDinner == JsString(<<68, 73, 78, 78, 69, 82>>)
Brunch == JsString(<<98, 114, 117, 110, 99, 104>>)

\* The bodies of log-food requests: quantities 1 and 2 of food 1 under the
\* meal types "Lunch", "DINNER", "brunch" and the number 5; a food that does
\* not exist; and one body for each required field left out.
LogFoodInputs ==
    {LogArgs(1, MixedLunch, 2), LogArgs(1, Brunch, 1), LogArgs(1, UpperDinner, 1),
     LogArgs(1, JsNumber(5), 1), LogArgs(2, MixedLunch, 1), LogArgs(0, MixedLunch, 1),
     LogArgs(1, JsString(<<>>), 1), LogArgs(1, JsUndefined, 1), LogArgs(1, MixedLunch, 0)}

\* A token signed with another secret, for user 1, that never expires here.
ForgedToken == Jwt(1, 0, 1000000000, "attacker-secret")

Bearer(t) == Header(<<Word("Bearer"), Sp, t>>)

\* The authorization headers a client that holds the tokens tk can send:
\* none, the scheme alone, a forged token, text that is no token, and each
\* token under the Bearer scheme, under another scheme, bare, and after two
\* spaces.
HeadersOf(tk) ==
    {NoHeader, Header(<<Word("Bearer")>>), Bearer(ForgedToken), Bearer(Word("xyz"))}
    \cup {Bearer(t.jwt) : t \in tk}
    \cup {Header(<<Word("Basic"), Sp, t.jwt>>) : t \in tk}
    \cup {Header(<<t.jwt>>) : t \in tk}
    \cup {Header(<<Word("Bearer"), Sp, Sp, t.jwt>>) : t \in tk}

\* The headers of a client that sends a token it holds, or sends none.
BearerOf(tk) == {NoHeader} \cup {Bearer(t.jwt) : t \in tk}

\* The outcomes of a database query or of the upstream search call: it
\* answers (TRUE) or it fails (FALSE).
Outcomes == BOOLEAN

DbError == ErrorBody("database error")

---------------------------------------------------------------------------
(* Actions.                                                                *)

\* The server starts at one of the given times on a database that holds the
\* given users and foods, while clients hold the given tokens.
InitAt(times, registered, stocked, held) ==
    /\ now \in times
    /\ ticks = 0
    /\ users = registered
    /\ foods = stocked
    /\ logs = <<>>
    /\ tokens = held
    /\ reqs = [r \in ReqIds |-> IdleReq]
    /\ last = IdleReq

\* The request of slot r becomes q: it stays in its slot while it waits,
\* and leaves it when it has ended.
Settle(r, q) ==
    IF Finished(q)
    THEN reqs' = [reqs EXCEPT ![r] = IdleReq] /\ last' = q
    ELSE reqs' = [reqs EXCEPT ![r] = q] /\ last' = last

\* A request arrives in the free slot r: the guard and the handler run up to
\* the handler's first await.
Arrive(r, route, hdr, args) ==
    /\ reqs[r].pc = "idle"
    /\ \E rescued \in BOOLEAN :
         Settle(r, Dispatch([IdleReq EXCEPT !.route = route, !.hdr = hdr,
                                            !.args = args], now, rescued))
    /\ UNCHANGED <<now, ticks, users, foods, logs, tokens>>

\* The number of requests in flight on a route.
InFlight(route) == Cardinality({r \in ReqIds : reqs[r].route = route})

ArriveRegister(r, emails, passwords) ==
    \E e \in emails, p \in passwords :
        Arrive(r, "register", NoHeader, [NoArgs EXCEPT !.email = e, !.password = p])

ArriveLogin(r, emails, passwords) ==
    /\ Cardinality(tokens) + InFlight("login") < MaxTokens
    /\ \E e \in emails, p \in passwords :
        Arrive(r, "login", NoHeader, [NoArgs EXCEPT !.email = e, !.password = p])

ArriveProfile(r, headers) ==
    \E h \in headers : Arrive(r, "profile", h, NoArgs)

ArriveSearch(r) ==
    \E qy \in BOOLEAN : Arrive(r, "search", NoHeader, [NoArgs EXCEPT !.query = qy])

ArriveAddFood(r, headers, bodies) ==
    /\ Len(foods) + InFlight("add-food") < MaxFoods
    /\ \E h \in headers, b \in bodies : Arrive(r, "add-food", h, b)

ArriveLogFood(r, headers, bodies) ==
    /\ Len(logs) + InFlight("log-food") < MaxLogs
    /\ \E h \in headers, b \in bodies : Arrive(r, "log-food", h, b)

ArriveDailySummary(r, headers) ==
    \E h \in headers : Arrive(r, "daily-summary", h, NoArgs)

\* The request of slot r is at the await named pc of the handler of route.
At(r, route, pc) == reqs[r].route = route /\ reqs[r].pc = pc

\* catch (error) { res.status(500).json({ error: error.message }) }
Caught(q, body) == Respond(q, 500, body)

\* register, after the SELECT has answered: the duplicate check, then
\* bcrypt.hash, which rejects a password that is no string.
AfterRegisterSelect(q, tbl) ==
    IF Len(SelectUsersByEmail(tbl, q.args.email)) > 0
    THEN Respond(q, 400, ErrorBody("User already exists"))
    ELSE IF q.args.password = NoPassword
         THEN Caught(q, ErrorBody("Illegal arguments"))
         ELSE [q EXCEPT !.pc = "insert"]

RegisterSelect(r) ==
    /\ At(r, "register", "select")
    /\ \E ok \in Outcomes :
        Settle(r, IF ok THEN AfterRegisterSelect(reqs[r], users)
                  ELSE Caught(reqs[r], DbError))
    /\ UNCHANGED <<now, ticks, users, foods, logs, tokens>>

\* register: the INSERT answers.
RegisterInsert(r) ==
    /\ At(r, "register", "insert")
    /\ \E ok \in Outcomes, salt \in Salts :
        LET q == reqs[r]
            refused == UsersEmailUnique
                         /\ Len(SelectUsersByEmail(users, q.args.email)) > 0
            row == [id |-> Len(users) + 1, email |-> q.args.email,
                    password |-> BcryptHash(q.args.password, salt)]
        IN IF ~ok
           THEN Settle(r, Caught(q, DbError)) /\ users' = users
           ELSE IF refused
                THEN Settle(r, Caught(q, ErrorBody("duplicate key value")))
                       /\ users' = users
                ELSE /\ users' = Append(users, row)
                     /\ Settle(r, Respond(q, 201, [NoBody EXCEPT !.id = row.id]))
    /\ UNCHANGED <<now, ticks, foods, logs, tokens>>

\* login, after the SELECT has answered.
AfterLoginSelect(q, tbl) ==
    LET rows == SelectUsersByEmail(tbl, q.args.email)
    IN IF Len(rows) = 0
       THEN Respond(q, 400, ErrorBody("Invalid email or password"))
       ELSE [q EXCEPT !.pc = "compare", !.row = rows[1]]

LoginSelect(r) ==
    /\ At(r, "login", "select")
    /\ \E ok \in Outcomes :
        Settle(r, IF ok THEN AfterLoginSelect(reqs[r], users)
                  ELSE Caught(reqs[r], DbError))
    /\ UNCHANGED <<now, ticks, users, foods, logs, tokens>>

\* A variant that does not look at isMatch.
AfterLoginCompareAnyPassword(q, ms) ==
    IF q.args.password = NoPassword
    THEN Caught(q, ErrorBody("Illegal arguments"))
    ELSE Respond(q, 200, [NoBody EXCEPT !.token = JwtSign(q.row.id, JWT_SECRET, ms),
                                        !.id = q.row.id])

\* login, after bcrypt.compare has answered: isMatch decides; the token is
\* signed for the row's id.
AfterLoginCompare(q, ms) ==
    IF q.args.password = NoPassword
    THEN Caught(q, ErrorBody("Illegal arguments"))
    ELSE IF ~BcryptCompare(q.args.password, q.row.password)
         THEN Respond(q, 400, ErrorBody("Invalid email or password"))
         ELSE Respond(q, 200, [NoBody EXCEPT !.token = JwtSign(q.row.id, JWT_SECRET, ms),
                                             !.id = q.row.id])

LoginCompare(r) ==
    /\ At(r, "login", "compare")
    /\ LET q == AfterLoginCompare(reqs[r], now)
       IN /\ Settle(r, q)
          /\ tokens' = IF q.status = 200
                    THEN tokens \cup {[jwt |-> q.body.token, at |-> now]}
                    ELSE tokens
    /\ UNCHANGED <<now, ticks, users, foods, logs>>

\* profile: SELECT id, name, email FROM users WHERE id = $1
ProfileSelect(r) ==
    /\ At(r, "profile", "select")
    /\ \E ok \in Outcomes :
        LET q == reqs[r]
            found == \E i \in DOMAIN users : users[i].id = q.user.userId
        IN Settle(r, IF ~ok THEN Caught(q, DbError)
                     ELSE Respond(q, 200,
                            [NoBody EXCEPT !.id = IF found THEN q.user.userId ELSE 0]))
    /\ UNCHANGED <<now, ticks, users, foods, logs, tokens>>

\* search: the upstream provider answers or fails.
SearchUpstream(r) ==
    /\ At(r, "search", "upstream")
    /\ \E ok \in Outcomes :
        Settle(r, IF ok THEN Respond(reqs[r], 200, NoBody)
                  ELSE Caught(reqs[r], ErrorBody("upstream error")))
    /\ UNCHANGED <<now, ticks, users, foods, logs, tokens>>

\* add-food: the INSERT answers.
AddFoodInsert(r) ==
    /\ At(r, "add-food", "insert")
    /\ \E ok \in Outcomes :
        LET q == reqs[r]
            row == [id |-> Len(foods) + 1, calories |-> q.args.calories]
        IN IF ~ok
           THEN Settle(r, Caught(q, DbError)) /\ foods' = foods
           ELSE /\ foods' = Append(foods, row)
                /\ Settle(r, Respond(q, 201, [NoBody EXCEPT !.id = row.id]))
    /\ UNCHANGED <<now, ticks, users, logs, tokens>>

\* log-food: the SELECT of the food answers.
LogFoodSelect(r) ==
    /\ At(r, "log-food", "select")
    /\ \E ok \in Outcomes :
        LET q == reqs[r]
        IN Settle(r, IF ~ok THEN Caught(q, DbError)
                     ELSE IF ~FoodExists(foods, q.args.food_id)
                          THEN Respond(q, 404, ErrorBody("Food not found"))
                          ELSE [q EXCEPT !.pc = "insert"])
    /\ UNCHANGED <<now, ticks, users, foods, logs, tokens>>

\* The row that log-food inserts.
LogRow(q, ms) ==
    [user_id |-> q.user.userId, food_id |-> q.args.food_id,
     meal_type |-> q.mealType, quantity |-> q.args.quantity,
     logged_at |-> LoggedAtDefault(ms)]

\* log-food: the INSERT answers.
LogFoodInsert(r) ==
    /\ At(r, "log-food", "insert")
    /\ \E ok \in Outcomes :
        LET q == reqs[r]
        IN IF ~ok
           THEN Settle(r, Caught(q, DbError)) /\ logs' = logs
           ELSE /\ logs' = Append(logs, LogRow(q, now))
                /\ Settle(r, Respond(q, 201, [NoBody EXCEPT !.id = Len(logs) + 1]))
    /\ UNCHANGED <<now, ticks, users, foods, tokens>>

\* daily-summary: the total query answers.  seen1 records the rows it read.
SummaryTotal(r) ==
    /\ At(r, "daily-summary", "total")
    /\ \E ok \in Outcomes :
        LET q == reqs[r]
        IN Settle(r, IF ~ok THEN Caught(q, DbError)
                     ELSE [q EXCEPT !.pc = "meals",
                              !.total = TotalQuery(logs, foods, q.user.userId, now),
                              !.seen1 = TodayLogs(logs, foods, q.user.userId, now)])
    /\ UNCHANGED <<now, ticks, users, foods, logs, tokens>>

\* daily-summary: the per-meal query answers and the summary is sent.  seen2
\* records the rows it read.
SummaryMeals(r) ==
    /\ At(r, "daily-summary", "meals")
    /\ \E ok \in Outcomes :
        LET q == reqs[r]
        IN Settle(r, IF ~ok THEN Caught(q, DbError)
                     ELSE Respond(
                            [q EXCEPT !.seen2 = TodayLogs(logs, foods, q.user.userId, now)],
                            200,
                            [NoBody EXCEPT !.total = q.total,
                                           !.meals = MealQuery(logs, foods,
                                                               q.user.userId, now)]))
    /\ UNCHANGED <<now, ticks, users, foods, logs, tokens>>

\* Time passes.
Tick(steps, max) ==
    /\ ticks < max
    /\ \E d \in steps : now' = now + d
    /\ ticks' = ticks + 1
    /\ UNCHANGED <<users, foods, logs, tokens, reqs, last>>

---------------------------------------------------------------------------
(* Specifications.  Each one runs the same handlers on the requests of one *)
(* part of the interface.                                                  *)

\* Two users who registered with the password "pw1".
Registered ==
    <<[id |-> 1, email |-> "a@b.com", password |-> BcryptHash("pw1", "s1")],
      [id |-> 2, email |-> "c@d.com", password |-> BcryptHash("pw1", "s1")]>>

\* The guard: the logins of a registered user, the profile route under every
\* kind of authorization header, add-food with and without a token, and the
\* clock around the expiry of a token.
GuardSteps == {500, ExpiresInSeconds * MsPerSecond - 500}

NextGuard ==
    \/ \E r \in SerialIds : ArriveLogin(r, {"a@b.com"}, {"pw1"})
    \/ \E r \in SerialIds : ArriveProfile(r, HeadersOf(tokens))
    \/ \E r \in SerialIds : ArriveAddFood(r, BearerOf(tokens) \cup {Bearer(ForgedToken)},
                                          {FoodArgs(TRUE, TRUE, 100)})
    \/ \E r \in SerialIds : LoginSelect(r)
    \/ \E r \in SerialIds : LoginCompare(r)
    \/ \E r \in SerialIds : ProfileSelect(r)
    \/ \E r \in SerialIds : AddFoodInsert(r)
    \/ Tick(GuardSteps, MaxTicks)

SpecGuard == InitAt({0}, <<Registered[1]>>, <<>>, {}) /\ [][NextGuard]_vars

\* Accounts: concurrent registrations and logins of two emails.
NextAccounts ==
    \/ \E r \in ReqIds : ArriveRegister(r, Emails, {"pw1", NoPassword})
    \/ \E r \in ReqIds : ArriveLogin(r, Emails, Passwords \cup {NoPassword})
    \/ \E r \in ReqIds : RegisterSelect(r)
    \/ \E r \in ReqIds : RegisterInsert(r)
    \/ \E r \in ReqIds : LoginSelect(r)
    \/ \E r \in ReqIds : LoginCompare(r)

SpecAccounts == InitAt({0}, <<>>, <<>>, {}) /\ [][NextAccounts]_vars

\* Food logging starts half an hour before midnight, on the database of the
\* two users, whose clients hold tokens issued at that time.
HalfHour == 30 * 60 * MsPerSecond

StartTime == MsPerDay - HalfHour

Held ==
    {[jwt |-> JwtSign(Registered[i].id, JWT_SECRET, StartTime), at |-> StartTime] :
        i \in DOMAIN Registered}

\* Meals: one user adds a food and logs it under every kind of request body,
\* and searches the food provider.
NextMeal ==
    \/ \E r \in ReqIds : ArriveAddFood(r, BearerOf({t \in tokens : t.jwt.userId = 1}),
                                       AddFoodInputs)
    \/ \E r \in ReqIds : ArriveLogFood(r, BearerOf({t \in tokens : t.jwt.userId = 1}),
                                       LogFoodInputs)
    \/ \E r \in ReqIds : AddFoodInsert(r)
    \/ \E r \in ReqIds : LogFoodSelect(r)
    \/ \E r \in ReqIds : LogFoodInsert(r)
    \/ \E r \in ReqIds : ArriveSearch(r)
    \/ \E r \in ReqIds : SearchUpstream(r)

SpecMeal == InitAt({StartTime}, Registered, <<>>, Held) /\ [][NextMeal]_vars

\* The foods table holds one food of 100 calories.
Stocked == <<[id |-> 1, calories |-> 100]>>

\* Summaries: one user logs the food and reads the daily summary, before and
\* after midnight, with several requests in flight.
SummaryLogInputs == {LogArgs(1, MixedLunch, 2), LogArgs(1, Brunch, 1)}

NextFood ==
    \/ \E r \in ReqIds : ArriveLogFood(r, BearerOf(tokens), SummaryLogInputs)
    \/ \E r \in ReqIds : ArriveDailySummary(r, BearerOf(tokens))
    \/ \E r \in ReqIds : LogFoodSelect(r)
    \/ \E r \in ReqIds : LogFoodInsert(r)
    \/ \E r \in ReqIds : SummaryTotal(r)
    \/ \E r \in ReqIds : SummaryMeals(r)
    \/ Tick({HalfHour}, MaxDayTicks)

SpecFood ==
    InitAt({StartTime}, Registered, Stocked, {t \in Held : t.jwt.userId = 1})
        /\ [][NextFood]_vars

\* Totals: the same requests of two users, served one after the other.
NextTotals ==
    \/ \E r \in SerialIds : ArriveLogFood(r, BearerOf(tokens), SummaryLogInputs)
    \/ \E r \in SerialIds : ArriveDailySummary(r, BearerOf(tokens))
    \/ \E r \in SerialIds : LogFoodSelect(r)
    \/ \E r \in SerialIds : LogFoodInsert(r)
    \/ \E r \in SerialIds : SummaryTotal(r)
    \/ \E r \in SerialIds : SummaryMeals(r)
    \/ Tick({HalfHour}, MaxDayTicks)

SpecTotals == InitAt({StartTime}, Registered, Stocked, Held) /\ [][NextTotals]_vars

---------------------------------------------------------------------------
(* Properties.                                                             *)

\* The requests that arrive in the step: those that take a free slot and
\* wait there, and the one that ends at once.
Arrivals ==
    {reqs'[r] : r \in {x \in ReqIds : reqs[x].pc = "idle" /\ reqs'[x].pc # "idle"}}
    \cup (IF reqs' = reqs /\ last' # last THEN {last'} ELSE {})

\* The requests of a state: those in flight and the one that ended last.
Requests == {reqs[r] : r \in ReqIds} \cup {last}

\* A token as the claims describe it: well formed, signed with the server's
\* secret, and not expired at time ms.
ValidAt(text, ms) ==
    /\ Len(text) = 1
    /\ text[1].k = "jwt"
    /\ text[1].key = JWT_SECRET
    /\ ms \div MsPerSecond < text[1].exp

\* The positions of the spaces in a header.
SpacesOf(text) == {i \in DOMAIN text : text[i] = Sp}

\* The text between the first and the second space of a header; empty when
\* the header is absent or holds no space.
SecondField(hdr) ==
    IF ~hdr.present \/ SpacesOf(hdr.text) = {} THEN <<>>
    ELSE LET first == CHOOSE i \in SpacesOf(hdr.text) :
                         \A j \in SpacesOf(hdr.text) : i <= j
             later == {j \in SpacesOf(hdr.text) : j > first}
             stop == IF later = {} THEN Len(hdr.text) + 1
                     ELSE CHOOSE j \in later : \A k \in later : j <= k
         IN SubSeq(hdr.text, first + 1, stop - 1)

\* C1: a request to a guarded route that carries a token passes the guard
\* if and only if the token is signed with the server's secret and has not
\* expired; then req.user is the token's claims; otherwise the request ends
\* at once with 400 'Invalid token', its handler does not run and the tables
\* are unchanged.  No request is in flight on a guarded route without having
\* passed the guard.
C1_GuardVerifies ==
    /\ [][\A q \in Arrivals :
            (q.route \in GuardedRoutes /\ SecondField(q.hdr) # <<>>) =>
                LET token == SecondField(q.hdr)
                IN /\ q.nextCalled <=> ValidAt(token, now)
                   /\ q.nextCalled =>
                        /\ q.user.userId = token[1].userId
                        /\ q.user.exp = token[1].exp
                        /\ q.user.iat = token[1].iat
                   /\ ~q.nextCalled =>
                        /\ q.pc = "done" /\ q.status = 400 /\ q.nres = 1
                        /\ q.body = ErrorBody("Invalid token")
                        /\ q.user = NoClaims
                        /\ UNCHANGED <<users, foods, logs>>]_vars
    /\ [](\A r \in ReqIds : reqs[r].route \in GuardedRoutes => reqs[r].nextCalled)

\* C1 witness: an expired token of the server has been refused with 400, while
\* the user's food is in the table.
C1_Witness ==
    /\ last.route = "profile" /\ last.status = 400 /\ ~last.nextCalled
    /\ \E t \in tokens : last.hdr = Bearer(t.jwt)
    /\ Len(foods) = 1

\* C2 (as claimed): a request to a guarded route without a token ends with
\* the response 401 'Access denied, no token provided', and its handler does
\* not run.
C2_NoTokenGets401 ==
    (last.route \in GuardedRoutes /\ ~last.hdr.present) =>
        /\ last.pc = "done" /\ last.status = 401 /\ last.nres = 1
        /\ last.body = ErrorBody("Access denied, no token provided")
        /\ ~last.nextCalled

\* The header has the form 'Bearer <token>'.
HasBearerPrefix(hdr) ==
    hdr.present /\ Len(hdr.text) >= 2 /\ hdr.text[1] = Word("Bearer") /\ hdr.text[2] = Sp

\* C3 (as claimed): a header without the 'Bearer ' prefix takes the
\* no-credential path, and jwt.verify is not called.
C3_PrefixRequired ==
    \A q \in Requests :
        (q.route \in GuardedRoutes /\ ~HasBearerPrefix(q.hdr)) =>
            q.status = 401 /\ ~q.verifyCalled /\ ~q.nextCalled

\* C3 (amended): the guard takes the text between the first and the second
\* space of the header as the token, whatever precedes the first space.
\* When that text is empty the request takes the no-credential path (status
\* 401 is set) and jwt.verify is not called; otherwise jwt.verify is called.
C3_SecondFieldIsToken ==
    \A q \in Requests :
        q.route \in GuardedRoutes =>
            /\ SecondField(q.hdr) = <<>> =>
                 q.status = 401 /\ ~q.verifyCalled /\ ~q.nextCalled
            /\ SecondField(q.hdr) # <<>> => q.verifyCalled

\* C3 witness: a token sent under the Basic scheme has passed the guard, and
\* so the profile was served.
C3_Witness ==
    /\ last.route = "profile" /\ last.status = 200 /\ last.nextCalled
    /\ ~HasBearerPrefix(last.hdr)

\* The requests that arrive with a token of login under the Bearer scheme,
\* each with that token.
TokenArrivals == {<<q, t>> \in Arrivals \X tokens :
                     q.route \in GuardedRoutes /\ q.hdr = Bearer(t.jwt)}

\* C4 (as claimed): a token signed at time t passes the guard at every time
\* before t + 1 hour and is refused at every time after it.
C4_ValidForOneHour ==
    [][\A p \in TokenArrivals :
         LET q == p[1]
             t == p[2]
         IN /\ now < t.at + ExpiresInSeconds * MsPerSecond =>
                 q.nextCalled /\ q.user.userId = t.jwt.userId
            /\ now > t.at + ExpiresInSeconds * MsPerSecond => ~q.nextCalled]_vars

\* C4 (amended): a token signed at time t passes the guard, yielding its
\* user, at every time whose whole second is before the whole second of t
\* plus 3600, and is refused from that second on, whatever the users table
\* holds.
C4_ValidUntilExpSecond ==
    [][\A p \in TokenArrivals :
         LET q == p[1]
             t == p[2]
             open == now \div MsPerSecond < t.at \div MsPerSecond + ExpiresInSeconds
         IN /\ open => q.nextCalled /\ q.user.userId = t.jwt.userId
            /\ ~open => ~q.nextCalled /\ q.status = 400]_vars

\* C4 witness: a token signed at time 0 has passed the guard half a second
\* before its hour was over.
C4_Witness ==
    /\ last.route = "profile" /\ last.status = 200
    /\ \E t \in tokens :
         /\ last.hdr = Bearer(t.jwt)
         /\ t.at = 0
         /\ now = ExpiresInSeconds * MsPerSecond - 500

\* C5 (as claimed): no two users share an email, and a registration that
\* the database served ends with 201 and its own record, or with 400 'User
\* already exists'.
C5_DuplicateGets400 ==
    /\ \A i, j \in DOMAIN users : users[i].email = users[j].email => i = j
    /\ (last.route = "register" /\ last.body # DbError
          /\ last.args.password # NoPassword) =>
            \/ /\ last.status = 201
               /\ \E i \in DOMAIN users :
                    users[i].id = last.body.id /\ users[i].email = last.args.email
            \/ last.status = 400 /\ last.body = ErrorBody("User already exists")

\* C6: a login with a password that the database served ends with a token
\* if and only if a user with the email exists whose hash the password
\* verifies against; the token is signed by the server for that user's id;
\* every other login ends with 400 'Invalid email or password' and no token.
C6_LoginIssuesToken ==
    [][(last' # last /\ last'.route = "login" /\ last'.body # DbError
          /\ last'.args.password # NoPassword) =>
         LET q == last'
             match == {i \in DOMAIN users :
                         /\ users[i].email = q.args.email
                         /\ BcryptCompare(q.args.password, users[i].password)}
         IN /\ (q.status = 200 /\ q.body.token # NoToken) <=> match # {}
            /\ match # {} =>
                 /\ \A i \in match : q.body.token.userId = users[i].id
                 /\ q.body.token.key = JWT_SECRET
                 /\ q.body.token \in {t.jwt : t \in tokens'}
            /\ match = {} =>
                 /\ q.status = 400
                 /\ q.body = ErrorBody("Invalid email or password")]_vars

\* C6 witness: the second of two users has logged in and holds a token for
\* id 2, while another registration is in flight.
C6_Witness ==
    /\ last.route = "login" /\ last.status = 200
    /\ Len(users) = 2
    /\ last.body.token.userId = 2
    /\ \E r \in ReqIds : reqs[r].route = "register"

\* The sum of calories * quantity over the first n log rows that belong to
\* the user and are dated on the day of ms.
RECURSIVE SumUpTo(_, _, _)
SumUpTo(n, userId, ms) ==
    IF n = 0 THEN 0
    ELSE SumUpTo(n - 1, userId, ms)
           + (IF logs[n].user_id = userId /\ DateOf(logs[n].logged_at) = DateOf(ms)
              THEN foods[logs[n].food_id].calories * logs[n].quantity
              ELSE 0)

\* The user of the token that a request carries.
Sender(q) == SecondField(q.hdr)[1].userId

\* C7: the total that daily-summary reads is the sum of calories * quantity
\* over the log rows of the authenticated user that are dated today, and it
\* is the total of the response; every row that log-food inserts belongs to
\* the user of the request's token, holds the request's food and quantity,
\* and is dated on the day of the insert.
C7_TotalIsTodaysSum ==
    /\ [][\A r \in ReqIds :
            (At(r, "daily-summary", "total") /\ reqs'[r].pc = "meals") =>
                reqs'[r].total = SumUpTo(Len(logs), Sender(reqs[r]), now)]_vars
    /\ [][\A r \in ReqIds :
            (At(r, "log-food", "insert") /\ reqs'[r].pc = "idle"
               /\ Len(logs') = Len(logs) + 1) =>
                LET row == logs'[Len(logs')]
                IN /\ row.user_id = Sender(reqs[r])
                   /\ row.food_id = reqs[r].args.food_id
                   /\ row.quantity = reqs[r].args.quantity
                   /\ DateOf(row.logged_at) = DateOf(now)]_vars
    /\ []((last.route = "daily-summary" /\ last.status = 200) =>
            last.body.total = last.total)

\* C7 witness: a summary of 200 calories (quantity 2 of the food of 100
\* calories) while the log also holds a row of the other user.
C7_Witness ==
    /\ last.route = "daily-summary" /\ last.status = 200
    /\ last.body.total = 200
    /\ Len(logs) = 2
    /\ \E i \in DOMAIN logs : logs[i].user_id # last.user.userId

\* C8 (as claimed): every log row holds one of the four meal types; a
\* log-food request with all its fields that the database served ends with
\* 404 'Food not found', or with 201 and a row whose meal type is the
\* lower-cased one supplied if that is one of the four, and 'snack' if not.
C8_MealTypeCoerced ==
    /\ \A i \in DOMAIN logs : logs[i].meal_type \in validMealTypes
    /\ (last.route = "log-food" /\ last.nextCalled /\ last.body # DbError
          /\ last.args.food_id # 0 /\ Truthy(last.args.meal_type)
          /\ last.args.quantity # 0) =>
            \/ last.status = 404 /\ last.body = ErrorBody("Food not found")
            \/ /\ last.status = 201
               /\ last.body.id \in DOMAIN logs
               /\ LET given == ToLowerCase(last.args.meal_type.s)
                  IN logs[last.body.id].meal_type =
                       IF given \in validMealTypes THEN given ELSE Snack

\* C9 (as claimed): every request that has ended has ended with exactly one
\* response, sent by its guard or its handler; no error has left them.
C9_EveryErrorCaught ==
    last.route # "idle" =>
        /\ last.pc = "done"
        /\ last.thrown = "none"
        /\ last.nres = 1
        /\ last.status \in {200, 201, 400, 401, 404, 500}

\* The sum of the per-meal totals of a summary.
RECURSIVE SumMeals(_, _)
SumMeals(meals, types) ==
    IF types = {} THEN 0
    ELSE LET m == CHOOSE m \in types : TRUE
         IN meals[m] + SumMeals(meals, types \ {m})

\* C10 (as claimed): in every summary the per-meal totals add up to the
\* total.
C10_MealsAddUp ==
    (last.route = "daily-summary" /\ last.status = 200) =>
        SumMeals(last.body.meals, DOMAIN last.body.meals) = last.body.total

\* C10 (amended): in every summary whose two queries read the same log rows
\* (no log of the user was inserted, and the date did not change, between
\* them) the per-meal totals add up to the total.
C10_MealsAddUpOnSameRows ==
    (last.route = "daily-summary" /\ last.status = 200 /\ last.seen1 = last.seen2) =>
        SumMeals(last.body.meals, DOMAIN last.body.meals) = last.body.total

\* C10 witness: a summary over two rows of two meal types, read alike by both
\* queries.
C10_Witness ==
    /\ last.route = "daily-summary" /\ last.status = 200
    /\ last.seen1 = last.seen2
    /\ Cardinality(DOMAIN last.body.meals) = 2

=============================================================================
